---- MODULE Spec2Model ----
(***************************************************************************)
(* Gamma exposure analytics of market_analyzer:                            *)
(*   src/src/analysis/gamma_exposure.rs  (aggregators and statistics)      *)
(*   src/src/graphql.rs                  (gammaExposure resolvers)         *)
(*                                                                         *)
(* Representation of values.                                               *)
(*   - A String is a sequence of one-character strings.                    *)
(*   - A strike (f64) is an integer number of thousandths (95.5 = 95500).  *)
(*   - gamma and exposures (f64) are integers in hundredths (0.05 = 5).    *)
(*     The inputs are chosen so that every sum and product is exact.       *)
(*   - implied volatility is in percent (0.2 = 20).                        *)
(*   - A quotient (f64 division) is a reduced fraction, NaN or +-inf.      *)
(***************************************************************************)
EXTENDS Integers, Sequences, FiniteSets, TLC

\* Longest option chain the data source returns in the model.
MaxChain == 2

\* Most entries of an exposure map handed directly to GammaExposureStats::new.
MaxMapEntries == 2

(***************************************************************************)
(* Strings                                                                 *)
(***************************************************************************)

\* Byte value of a character (the alphabet the model's strings use).
CharCode(c) ==
    CASE c = "-" -> 45 [] c = "." -> 46
      [] c = "0" -> 48 [] c = "1" -> 49 [] c = "2" -> 50 [] c = "3" -> 51
      [] c = "4" -> 52 [] c = "5" -> 53 [] c = "6" -> 54 [] c = "7" -> 55
      [] c = "8" -> 56 [] c = "9" -> 57
      [] c = "a" -> 97 [] c = "b" -> 98 [] c = "c" -> 99 [] c = "x" -> 120

IsDigit(c) == CharCode(c) >= 48 /\ CharCode(c) <= 57

DigitChar(d) ==
    CASE d = 0 -> "0" [] d = 1 -> "1" [] d = 2 -> "2" [] d = 3 -> "3"
      [] d = 4 -> "4" [] d = 5 -> "5" [] d = 6 -> "6" [] d = 7 -> "7"
      [] d = 8 -> "8" [] d = 9 -> "9"

\* String::cmp: byte-wise lexicographic order; a proper prefix is smaller.
\* -1 (Less), 0 (Equal), 1 (Greater).
RECURSIVE StrCmp(_, _)
StrCmp(a, b) ==
    IF a = <<>> /\ b = <<>> THEN 0
    ELSE IF a = <<>> THEN -1
    ELSE IF b = <<>> THEN 1
    ELSE IF CharCode(Head(a)) < CharCode(Head(b)) THEN -1
    ELSE IF CharCode(Head(a)) > CharCode(Head(b)) THEN 1
    ELSE StrCmp(Tail(a), Tail(b))

\* Decimal digits of a natural number.
RECURSIVE DigitsOf(_)
DigitsOf(n) ==
    IF n < 10 THEN <<DigitChar(n)>>
    ELSE DigitsOf(n \div 10) \o <<DigitChar(n % 10)>>

\* f64::to_string of a strike: the shortest decimal that reads back as the
\* same number: no fraction for a whole number, no trailing zeros otherwise.
StrikeToString(strike) ==
    LET whole == strike \div 1000
        frac  == strike % 1000
        d1    == DigitChar(frac \div 100)
        d2    == DigitChar((frac \div 10) % 10)
        d3    == DigitChar(frac % 10)
    IN  IF frac = 0 THEN DigitsOf(whole)
        ELSE IF frac % 100 = 0 THEN DigitsOf(whole) \o <<".", d1>>
        ELSE IF frac % 10 = 0 THEN DigitsOf(whole) \o <<".", d1, d2>>
        ELSE DigitsOf(whole) \o <<".", d1, d2, d3>>

\* Value of a string of digits.
RECURSIVE DigitsValue(_)
DigitsValue(s) ==
    IF s = <<>> THEN 0
    ELSE DigitsValue(SubSeq(s, 1, Len(s) - 1)) * 10 + (CharCode(s[Len(s)]) - 48)

AllDigits(s) == \A i \in 1..Len(s) : IsDigit(s[i])

\* Index of the first occurrence of character c in s, 0 when there is none.
FirstIndex(s, c) ==
    IF \E i \in 1..Len(s) : s[i] = c
    THEN CHOOSE i \in 1..Len(s) : s[i] = c /\ \A j \in 1..(i - 1) : s[j] # c
    ELSE 0

\* str::parse::<f64> on unsigned decimal text with at most three fraction
\* digits: digits, optionally a point and digits; at least one digit.
\* The value is in thousandths.
ParseF64(s) ==
    LET dot   == FirstIndex(s, ".")
        whole == IF dot = 0 THEN s ELSE SubSeq(s, 1, dot - 1)
        frac  == IF dot = 0 THEN <<>> ELSE SubSeq(s, dot + 1, Len(s))
        pad   == frac \o SubSeq(<<"0", "0", "0">>, 1, 3 - Len(frac))
        ok    == /\ AllDigits(whole) /\ AllDigits(frac)
                 /\ Len(whole) + Len(frac) > 0
                 /\ Len(frac) <= 3
    IN  IF ok THEN [ok |-> TRUE, val |-> DigitsValue(whole) * 1000 + DigitsValue(pad)]
        ELSE [ok |-> FALSE, val |-> 0]

\* str::parse::<i32> / <u32> on unsigned text: one or more digits.
ParseInt(s) ==
    IF Len(s) > 0 /\ AllDigits(s) THEN [ok |-> TRUE, val |-> DigitsValue(s)]
    ELSE [ok |-> FALSE, val |-> 0]

\* str::split("-"): the pieces between the separators; always at least one.
RECURSIVE Split(_, _)
Split(s, sep) ==
    LET i == FirstIndex(s, sep)
    IN  IF i = 0 THEN <<s>>
        ELSE <<SubSeq(s, 1, i - 1)>> \o Split(SubSeq(s, i + 1, Len(s)), sep)

(***************************************************************************)
(* Dates                                                                   *)
(***************************************************************************)

IsLeap(y) == (y % 4 = 0 /\ y % 100 # 0) \/ y % 400 = 0

DaysInMonth(y, m) ==
    IF m = 2 THEN (IF IsLeap(y) THEN 29 ELSE 28)
    ELSE IF m \in {4, 6, 9, 11} THEN 30
    ELSE 31

\* Whether (y, m, d) is a calendar date: TimeZone::ymd panics when it is not.
ValidYmd(y, m, d) ==
    m >= 1 /\ m <= 12 /\ d >= 1 /\ d <= DaysInMonth(y, m)

\* Days before the first of month m in year y.
RECURSIVE DaysBeforeMonth(_, _)
DaysBeforeMonth(y, m) ==
    IF m <= 1 THEN 0 ELSE DaysBeforeMonth(y, m - 1) + DaysInMonth(y, m - 1)

\* Day number of a calendar date (days since 0000-12-31, proleptic Gregorian).
DayNumber(date) ==
    LET y == date.y - 1
    IN  y * 365 + (y \div 4) - (y \div 100) + (y \div 400)
          + DaysBeforeMonth(date.y, date.m) + date.d

\* Date::signed_duration_since(now).num_days()
DaysBetween(date, now) == DayNumber(date) - DayNumber(now)

\* parse_date: "ok" with the date, "err" (a missing or non-numeric
\* component), or "panic" (Local.ymd on a date that does not exist).
\* Components after the third are ignored.
parse_date(date) ==
    LET parts == Split(date, "-")
        y == ParseInt(parts[1])
        m == IF Len(parts) >= 2 THEN ParseInt(parts[2]) ELSE [ok |-> FALSE, val |-> 0]
        d == IF Len(parts) >= 3 THEN ParseInt(parts[3]) ELSE [ok |-> FALSE, val |-> 0]
    IN  IF ~y.ok \/ ~m.ok \/ ~d.ok
        THEN [kind |-> "err", y |-> 0, m |-> 0, d |-> 0]
        ELSE IF ~ValidYmd(y.val, m.val, d.val)
        THEN [kind |-> "panic", y |-> 0, m |-> 0, d |-> 0]
        ELSE [kind |-> "ok", y |-> y.val, m |-> m.val, d |-> d.val]

(***************************************************************************)
(* Pricing model (crate::math::bs::gamma)                                  *)
(***************************************************************************)

NaN == [nan |-> TRUE, v |-> 0]
Num(v) == [nan |-> FALSE, v |-> v]

\* Black-Scholes gamma for 30 days to expiration, in hundredths, rounded:
\* phi(d1) / (price * sigma * sqrt(T)),
\* d1 = (ln(price / strike) + sigma^2 / 2 * T) / (sigma * sqrt(T)).
\* Indexed by sigma (percent), price and strike (thousandths).
BSGamma30(sigma, price, strike) ==
    LET k == IF strike = 20005 THEN 20000 ELSE strike
    IN  CASE sigma = 1  /\ price = 20000  /\ strike = 20000 -> 696
          [] sigma = 1  /\ price = 20000  /\ strike = 20005 -> 693
          [] sigma = 1  /\ price = 95000  /\ k = 95000      -> 146
          [] sigma = 1  /\ price = 105000 /\ k = 105000     -> 133
          [] sigma = 20 /\ price = 20000  /\ k = 20000      -> 35
          [] sigma = 20 /\ price = 95000  /\ k = 95000      -> 7
          [] sigma = 20 /\ price = 95000  /\ k = 105000     -> 2
          [] sigma = 20 /\ price = 105000 /\ k = 95000      -> 1
          [] sigma = 20 /\ price = 105000 /\ k = 105000     -> 7
          [] OTHER -> 0

\* gamma(sigma, time_to_expiration, time_now, price, strike); the times are
\* in days.  Undefined (NaN) when sigma <= 0 or no time remains.
gamma(sigma, expiration_time, current_time, price, strike) ==
    IF sigma <= 0 \/ expiration_time - current_time <= 0 THEN NaN
    ELSE Num(BSGamma30(sigma, price, strike))

(***************************************************************************)
(* Exposure maps (BTreeMap<String, f64>)                                   *)
(***************************************************************************)

EmptyMap == << >>

\* |gamma| above this (1.0, in hundredths) is treated as corrupt.
GammaGuard == 100

\* match map.get_mut(&key) { Some(exp) => *exp += exposure,
\*                           None => map.insert(key, exposure) }
Accumulate(map, key, exposure) ==
    IF key \in DOMAIN map THEN [map EXCEPT ![key] = @ + exposure]
    ELSE map @@ (key :> exposure)

\* The keys of a BTreeMap in iteration order: ascending String order.
RECURSIVE SortedKeys(_)
SortedKeys(S) ==
    IF S = {} THEN <<>>
    ELSE LET m == CHOOSE x \in S : \A y \in S : StrCmp(x, y) <= 0
         IN  <<m>> \o SortedKeys(S \ {m})

BTreeIter(map) == SortedKeys(DOMAIN map)

(***************************************************************************)
(* Direct aggregator: gamma_exposure_by_price                              *)
(***************************************************************************)

\* The exposure of one contract with greeks (lines 115-122): 0 for a corrupt
\* gamma, negated for a put.
DirectExposure(option) ==
    LET exposure == IF option.greeks.gamma > GammaGuard
                       \/ option.greeks.gamma < -GammaGuard
                    THEN 0
                    ELSE option.greeks.gamma * option.open_interest
    IN  IF option.option_type = "put" THEN exposure * (-1) ELSE exposure

\* Variant of DirectStep: the entry is replaced, not added to.
DirectStepOverwrite(map, option) ==
    IF option.greeks.some
    THEN (StrikeToString(option.strike) :> DirectExposure(option)) @@ map
    ELSE map

\* Variant of DirectStep: a zero exposure creates no entry.
DirectStepSkipZero(map, option) ==
    IF option.greeks.some /\ DirectExposure(option) # 0
    THEN Accumulate(map, StrikeToString(option.strike), DirectExposure(option))
    ELSE map

\* One iteration of the loop over the chain (lines 112-130).
DirectStep(map, option) ==
    IF option.greeks.some
    THEN Accumulate(map, StrikeToString(option.strike), DirectExposure(option))
    ELSE map

\* The map the loop builds from a whole chain, starting from the empty map.
RECURSIVE DirectLoop(_, _)
DirectLoop(map, options) ==
    IF options = <<>> THEN map
    ELSE DirectLoop(DirectStep(map, Head(options)), Tail(options))

gamma_exposure_by_price(options) == DirectLoop(EmptyMap, options)

(***************************************************************************)
(* Model aggregate builder: gamma_exposure_aggregate                       *)
(***************************************************************************)

\* The price grid (lines 152-158): strikes truncated to whole cents,
\* deduplicated, as prices again.
StrikeGrid(options) ==
    {((options[i].strike * 100) \div 1000) * 10 : i \in 1..Len(options)}

\* Variant of AggregateExposure: the exposure of a put is not negated.
AggregateExposureNoSign(option, days_remaining, price) ==
    LET sigma == IF option.greeks.some THEN option.greeks.mid_iv ELSE 0
        g == gamma(sigma, days_remaining, 0, price, option.strike)
    IN  IF g.nan THEN 0
        ELSE IF g.v > GammaGuard \/ g.v < -GammaGuard THEN 0
        ELSE g.v * option.open_interest

\* The exposure of one contract at one grid price (lines 172-181).
AggregateExposure(option, days_remaining, price) ==
    LET sigma == IF option.greeks.some THEN option.greeks.mid_iv ELSE 0
        g == gamma(sigma, days_remaining, 0, price, option.strike)
        exposure == IF g.nan THEN 0
                    ELSE IF g.v > GammaGuard \/ g.v < -GammaGuard THEN 0
                    ELSE g.v * option.open_interest
    IN  IF option.option_type = "put" THEN exposure * (-1) ELSE exposure

\* The inner loop over the grid prices (lines 171-188): every exposure is
\* accumulated under the contract's own strike string.
RECURSIVE AggregatePrices(_, _, _, _)
AggregatePrices(map, option, days_remaining, prices) ==
    IF prices = {} THEN map
    ELSE LET price == CHOOSE p \in prices : TRUE
         IN  AggregatePrices(
                 Accumulate(map, StrikeToString(option.strike),
                            AggregateExposure(option, days_remaining, price)),
                 option, days_remaining, prices \ {price})

\* One iteration of the outer loop (lines 160-189): the date is parsed
\* first, and a failure ends the function.
AggregateStep(map, option, now, prices) ==
    LET date == parse_date(option.expiration_date)
    IN  IF date.kind # "ok" THEN [kind |-> date.kind, map |-> map]
        ELSE [kind |-> "ok",
              map  |-> AggregatePrices(map, option, DaysBetween(date, now), prices)]

\* The map the outer loop builds from a whole chain.
RECURSIVE AggregateLoop(_, _, _, _)
AggregateLoop(map, options, now, prices) ==
    IF options = <<>> THEN [kind |-> "ok", map |-> map]
    ELSE LET r == AggregateStep(map, Head(options), now, prices)
         IN  IF r.kind # "ok" THEN r
             ELSE AggregateLoop(r.map, Tail(options), now, prices)

(***************************************************************************)
(* Statistics: GammaExposureStats::new                                     *)
(***************************************************************************)

Abs(x) == IF x < 0 THEN -x ELSE x
Max(a, b) == IF a >= b THEN a ELSE b
Min(a, b) == IF a <= b THEN a ELSE b

RECURSIVE Gcd(_, _)
Gcd(a, b) == IF b = 0 THEN a ELSE Gcd(b, a % b)

\* A finite f64 value n/d in lowest terms, d > 0.
Frac(n, d) ==
    LET g == Gcd(Abs(n), Abs(d))
        s == IF d < 0 THEN -1 ELSE 1
    IN  [kind |-> "num", n |-> s * (n \div g), d |-> s * (d \div g)]

\* f64 division: x / 0 is NaN for x = 0 and an infinity otherwise.
FDiv(n, d) ==
    IF d # 0 THEN Frac(n, d)
    ELSE IF n = 0 THEN [kind |-> "nan", n |-> 0, d |-> 0]
    ELSE IF n > 0 THEN [kind |-> "inf", n |-> 0, d |-> 0]
    ELSE [kind |-> "-inf", n |-> 0, d |-> 0]

\* The accumulators before the loop (lines 27-35).
StatsInit ==
    [positive_sum |-> 0, positive_count |-> 0,
     negative_sum |-> 0, negative_count |-> 0,
     maximum |-> 0, minimum |-> 0, absolute_maximum |-> 0,
     weighted_positive_sum |-> 0, weighted_negative_sum |-> 0,
     err |-> FALSE]

\* Variant of StatsEntry: the minimum is updated with max instead of min.
StatsEntryMinByMax(acc, key, exposure) ==
    LET strike == ParseF64(key)
    IN  IF ~strike.ok THEN [acc EXCEPT !.err = TRUE]
        ELSE LET a == IF exposure >= 0
                      THEN [acc EXCEPT
                              !.positive_sum = @ + exposure,
                              !.weighted_positive_sum = @ + strike.val * exposure,
                              !.positive_count = @ + 1]
                      ELSE [acc EXCEPT
                              !.negative_sum = @ + exposure,
                              !.weighted_negative_sum = @ + strike.val * exposure,
                              !.negative_count = @ + 1]
             IN  [a EXCEPT !.maximum = Max(@, exposure),
                           !.minimum = Max(@, exposure),
                           !.absolute_maximum = Max(@, Abs(exposure))]

\* One iteration of the loop over the entries (lines 37-51); a key that
\* does not parse ends the function with an error.
StatsEntry(acc, key, exposure) ==
    LET strike == ParseF64(key)
    IN  IF ~strike.ok THEN [acc EXCEPT !.err = TRUE]
        ELSE LET a == IF exposure >= 0
                      THEN [acc EXCEPT
                              !.positive_sum = @ + exposure,
                              !.weighted_positive_sum = @ + strike.val * exposure,
                              !.positive_count = @ + 1]
                      ELSE [acc EXCEPT
                              !.negative_sum = @ + exposure,
                              !.weighted_negative_sum = @ + strike.val * exposure,
                              !.negative_count = @ + 1]
             IN  [a EXCEPT !.maximum = Max(@, exposure),
                           !.minimum = Min(@, exposure),
                           !.absolute_maximum = Max(@, Abs(exposure))]

RECURSIVE StatsLoop(_, _, _)
StatsLoop(acc, keys, map) ==
    IF keys = <<>> \/ acc.err THEN acc
    ELSE StatsLoop(StatsEntry(acc, Head(keys), map[Head(keys)]), Tail(keys), map)

\* Variant of CollectPrices: entries with a zero exposure are left out.
CollectPricesNonZero(map) ==
    LET keys == SelectSeq(BTreeIter(map), LAMBDA k : map[k] # 0)
    IN  [i \in 1..Len(keys) |->
            [strike |-> keys[i], gamma_exposure |-> map[keys[i]]]]

\* GammaExposure::new for every entry, in the map's iteration order
\* (lines 67-70).
CollectPrices(map) ==
    LET keys == BTreeIter(map)
    IN  [i \in 1..Len(keys) |->
            [strike |-> keys[i], gamma_exposure |-> map[keys[i]]]]

\* Insert p into a sequence sorted by p1.strike.cmp(&p2.strike), after the
\* elements that compare equal (the sort is stable).
RECURSIVE InsertByStrike(_, _)
InsertByStrike(sorted, p) ==
    IF sorted = <<>> THEN <<p>>
    ELSE IF StrCmp(p.strike, Head(sorted).strike) < 0 THEN <<p>> \o sorted
    ELSE <<Head(sorted)>> \o InsertByStrike(Tail(sorted), p)

\* prices.sort_by(|p1, p2| p1.strike.cmp(&p2.strike))  (line 72)
RECURSIVE SortByStrike(_)
SortByStrike(prices) ==
    IF prices = <<>> THEN <<>>
    ELSE InsertByStrike(SortByStrike(SubSeq(prices, 1, Len(prices) - 1)),
                        prices[Len(prices)])

NoStats == [prices |-> <<>>]

\* The report computed from the accumulators (lines 53-85).
StatsReport(acc, map) ==
    LET positive_count == Max(acc.positive_count, 1)
        negative_count == Max(acc.negative_count, 1)
        absolute_sum   == Abs(acc.positive_sum) + Abs(acc.negative_sum)
    IN  [prices |-> SortByStrike(CollectPrices(map)),
         average_absolute_exposure |->
             FDiv(absolute_sum, positive_count + negative_count),
         average_positive_exposure |-> FDiv(acc.positive_sum, positive_count),
         average_negative_exposure |-> FDiv(acc.negative_sum, negative_count),
         maximum |-> acc.maximum,
         minimum |-> acc.minimum,
         absolute_maximum |-> acc.absolute_maximum,
         weighted_average_absolute_price |->
             FDiv(Abs(acc.weighted_positive_sum) + Abs(acc.weighted_negative_sum),
                  absolute_sum),
         weighted_average_positive_price |->
             FDiv(acc.weighted_positive_sum, acc.positive_sum),
         weighted_average_negative_price |->
             FDiv(acc.weighted_negative_sum, acc.negative_sum)]

\* GammaExposureStats::new: Err on the first key that does not parse,
\* otherwise Ok with the report.
GammaExposureStats_new(map) ==
    LET acc == StatsLoop(StatsInit, BTreeIter(map), map)
    IN  IF acc.err THEN [kind |-> "err", stats |-> NoStats]
        ELSE [kind |-> "ok", stats |-> StatsReport(acc, map)]

(***************************************************************************)
(* Inputs                                                                  *)
(***************************************************************************)

Greeks(gamma_, mid_iv) == [some |-> TRUE, gamma |-> gamma_, mid_iv |-> mid_iv]
NoGreeks == [some |-> FALSE, gamma |-> 0, mid_iv |-> 0]

Option(strike, expiration_date, option_type, open_interest, greeks) ==
    [strike |-> strike, expiration_date |-> expiration_date,
     option_type |-> option_type, open_interest |-> open_interest,
     greeks |-> greeks]

Date20210618 == <<"2", "0", "2", "1", "-", "0", "6", "-", "1", "8">>

\* Expiration dates that are not a calendar date: month 13, day 30 of
\* February, a non-numeric month, a missing day.
MalformedDates ==
    { <<"2", "0", "2", "1", "-", "1", "3", "-", "0", "1">>,
      <<"2", "0", "2", "1", "-", "0", "2", "-", "3", "0">>,
      <<"2", "0", "2", "1", "-", "x", "x", "-", "0", "1">>,
      <<"2", "0", "2", "1", "-", "0", "6">> }

\* Open interest and greeks of the contracts: gamma 0.05 at 20% volatility
\* with open interest 10, 20 and 0; a corrupt gamma of 1.5 at 1% volatility;
\* no greeks.
Quotes ==
    { <<10, Greeks(5, 20)>>, <<20, Greeks(5, 20)>>, <<0, Greeks(5, 20)>>,
      <<10, Greeks(150, 1)>>, <<10, NoGreeks>> }

Contracts ==
    { Option(k, Date20210618, "call", q[1], q[2]) :
        k \in {95000, 105000}, q \in Quotes }
    \cup { Option(k, Date20210618, "put", oi, Greeks(5, 20)) :
        k \in {95000, 105000}, oi \in {10, 20} }
    \cup { Option(k, Date20210618, "call", 10, Greeks(5, 20)) : k \in {20000, 20005} }
    \cup { Option(95000, d, "call", 10, Greeks(5, 20)) : d \in MalformedDates }

Chains == UNION { [1..n -> Contracts] : n \in 0..MaxChain }

\* Today: 30 days before the expiration date, and after it.
Nows == { [y |-> 2021, m |-> 5, d |-> 19], [y |-> 2021, m |-> 7, d |-> 1] }
NoDate == [y |-> 0, m |-> 0, d |-> 0]

\* Maps given directly to GammaExposureStats::new.
InputKeys == { <<"2", "0">>, <<"1", "0", "0">>, <<"a", "b", "c">> }
InputExposures == { -300, 0, 500 }
InputMaps ==
    UNION { [K -> InputExposures] :
              K \in { S \in SUBSET InputKeys : Cardinality(S) <= MaxMapEntries } }

(***************************************************************************)
(* State                                                                   *)
(***************************************************************************)

VARIABLES
    mode,       \* "direct": gammaExposure, "aggregate": gammaExposureAggregate,
                \* "stats": GammaExposureStats::new called on a given map
    options,    \* the option chain of the symbol
    now,        \* Local::now().date() of the aggregate builder
    strikes,    \* the price grid of the aggregate builder
    pc,         \* "fetch", "loop", "stats", "unwrap", "done"
    idx,        \* index of the next contract of the loop
    map,        \* strike_to_gamma_exposure
    result,     \* the anyhow::Result of the analysis function
    query       \* what the GraphQL caller gets: "none", "data", "error", "panic"

vars == <<mode, options, now, strikes, pc, idx, map, result, query>>

NoResult == [kind |-> "none", stats |-> NoStats]
ErrResult == [kind |-> "err", stats |-> NoStats]
PanicResult == [kind |-> "panic", stats |-> NoStats]

Init ==
    /\ mode \in {"direct", "aggregate", "stats"}
    /\ IF mode = "stats"
       THEN /\ options = <<>>
            /\ map \in InputMaps
            /\ pc = "stats"
       ELSE /\ options = <<>>
            /\ map = EmptyMap
            /\ pc = "fetch"
    /\ now = NoDate
    /\ strikes = {}
    /\ idx = 1
    /\ result = NoResult
    /\ query = "none"

\* Root::gamma_exposure / gamma_exposure_aggregate: db::option_chain fails
\* and the error is returned to the caller (graphql.rs lines 80-82, 96-98).
ResolverFetchFail ==
    /\ pc = "fetch"
    /\ pc' = "done"
    /\ query' = "error"
    /\ UNCHANGED <<mode, options, now, strikes, idx, map, result>>

\* tradier::get_option_chain fails inside the analysis function (lines 108,
\* 147): the function returns Err.
ChainFetchFail ==
    /\ pc = "fetch"
    /\ pc' = "unwrap"
    /\ result' = ErrResult
    /\ UNCHANGED <<mode, options, now, strikes, idx, map, query>>

\* The chain is fetched; the aggregate builder reads the date and builds the
\* price grid (lines 108-110, 147-158).
FetchChain ==
    /\ pc = "fetch"
    /\ options' \in Chains
    /\ IF mode = "aggregate"
       THEN /\ now' \in Nows
            /\ strikes' = StrikeGrid(options')
       ELSE UNCHANGED <<now, strikes>>
    /\ pc' = IF options' = <<>> THEN "stats" ELSE "loop"
    /\ UNCHANGED <<mode, idx, map, result, query>>

\* One contract of gamma_exposure_by_price.
DirectIter ==
    /\ pc = "loop" /\ mode = "direct"
    /\ map' = DirectStep(map, options[idx])
    /\ idx' = idx + 1
    /\ pc' = IF idx = Len(options) THEN "stats" ELSE "loop"
    /\ UNCHANGED <<mode, options, now, strikes, result, query>>

\* One contract of gamma_exposure_aggregate.  An Err of parse_date is
\* returned; a panic of parse_date unwinds through the resolver.
AggregateIter ==
    /\ pc = "loop" /\ mode = "aggregate"
    /\ LET r == AggregateStep(map, options[idx], now, strikes)
       IN  /\ map' = r.map
           /\ idx' = IF r.kind = "ok" THEN idx + 1 ELSE idx
           /\ pc' = IF r.kind = "err" THEN "unwrap"
                    ELSE IF r.kind = "panic" THEN "done"
                    ELSE IF idx = Len(options) THEN "stats" ELSE "loop"
           /\ result' = IF r.kind = "err" THEN ErrResult
                        ELSE IF r.kind = "panic" THEN PanicResult
                        ELSE result
           /\ query' = IF r.kind = "panic" THEN "panic" ELSE query
    /\ UNCHANGED <<mode, options, now, strikes>>

\* GammaExposureStats::new(&map) (lines 26-86, called at 140 and 193).
StatsNew ==
    /\ pc = "stats"
    /\ result' = GammaExposureStats_new(map)
    /\ pc' = IF mode = "stats" THEN "done" ELSE "unwrap"
    /\ UNCHANGED <<mode, options, now, strikes, idx, map, query>>

\* The resolver unwraps the analysis result (graphql.rs lines 83-84, 99-100).
Unwrap ==
    /\ pc = "unwrap"
    /\ query' = IF result.kind = "ok" THEN "data" ELSE "panic"
    /\ pc' = "done"
    /\ UNCHANGED <<mode, options, now, strikes, idx, map, result>>

Next ==
    \/ ResolverFetchFail
    \/ ChainFetchFail
    \/ FetchChain
    \/ DirectIter
    \/ AggregateIter
    \/ StatsNew
    \/ Unwrap

Spec == Init /\ [][Next]_vars

(***************************************************************************)
(* Properties                                                              *)
(***************************************************************************)

\* The value a map holds for a key, 0 for a key it does not hold.
Get(m, k) == IF k \in DOMAIN m THEN m[k] ELSE 0

\* The contracts the direct aggregator's loop has processed so far.
Processed == SubSeq(options, 1, idx - 1)

\* The loop of an aggregator has run over the whole chain.
ChainAggregated == mode \in {"direct", "aggregate"} /\ pc = "stats"

SetMax(S) == CHOOSE x \in S : \A y \in S : y <= x
SetMin(S) == CHOOSE x \in S : \A y \in S : x <= y

RECURSIVE SumOfAbs(_, _)
SumOfAbs(m, keys) ==
    IF keys = {} THEN 0
    ELSE LET k == CHOOSE x \in keys : TRUE
         IN  Abs(m[k]) + SumOfAbs(m, keys \ {k})

RECURSIVE SumOfPositive(_, _)
SumOfPositive(m, keys) ==
    IF keys = {} THEN 0
    ELSE LET k == CHOOSE x \in keys : TRUE
         IN  (IF m[k] >= 0 THEN m[k] ELSE 0) + SumOfPositive(m, keys \ {k})

Report == result.stats

----------------------------------------------------------------------------
\* C1: for every non-empty exposure map the prices of the report are in
\* ascending numeric order of price: of two adjacent entries the first
\* strike is numerically <= the second.
C1_PricesNumericAscending ==
    result.kind = "ok" =>
        \A i \in 1..(Len(Report.prices) - 1) :
            ParseF64(Report.prices[i].strike).val
                <= ParseF64(Report.prices[i + 1].strike).val

----------------------------------------------------------------------------
\* A map on which a weighted-average denominator is zero: the map is empty,
\* the positive subset's sum is 0, the negative subset is empty, or the
\* total absolute exposure is 0.
Degenerate(m) ==
    \/ DOMAIN m = {}
    \/ SumOfPositive(m, DOMAIN m) = 0
    \/ \A k \in DOMAIN m : m[k] >= 0
    \/ SumOfAbs(m, DOMAIN m) = 0

\* C2: GammaExposureStats::new returns an error, not a report, whenever the
\* map is empty or a weighted-average denominator is exactly zero.
C2_DegenerateMapIsError ==
    result.kind = "ok" => ~Degenerate(map)

----------------------------------------------------------------------------
\* The exposure the claim assigns to contract c at grid price p.
RECURSIVE GridSum(_, _, _)
GridSum(opts, today, p) ==
    IF opts = <<>> THEN 0
    ELSE LET c == Head(opts)
             date == parse_date(c.expiration_date)
             g == gamma(IF c.greeks.some THEN c.greeks.mid_iv ELSE 0,
                        DaysBetween(date, today), 0, p, c.strike)
             guarded == IF g.nan \/ Abs(g.v) > 100 THEN 0 ELSE g.v
             sign == IF c.option_type = "put" THEN -1 ELSE 1
         IN  sign * guarded * c.open_interest + GridSum(Tail(opts), today, p)

\* C3: in the aggregate builder the exposure of a contract at grid price p
\* is accumulated under the key of p: the key set is the price grid and the
\* value at p is the sum over all contracts of their exposure at p.
C3_AggregateKeyedByGridPrice ==
    (mode = "aggregate" /\ pc = "stats") =>
        /\ DOMAIN map = {StrikeToString(p) : p \in strikes}
        /\ \A p \in strikes : map[StrikeToString(p)] = GridSum(options, now, p)

----------------------------------------------------------------------------
\* C4: the key set of the direct aggregator's map is exactly the set of
\* strikes of the contracts with greeks: a contract without greeks creates
\* no key, a contract with greeks creates its strike's key even when its
\* exposure is 0.
C4_DirectKeysAreStrikesWithGreeks ==
    mode = "direct" =>
        LET withGreeks == {i \in 1..Len(Processed) : Processed[i].greeks.some}
        IN  /\ DOMAIN map = {StrikeToString(Processed[i].strike) : i \in withGreeks}
            /\ {ParseF64(k).val : k \in DOMAIN map}
                   = {Processed[i].strike : i \in withGreeks}

\* A chain with a contract without greeks whose strike has no key, and a
\* contract with greeks and exposure 0 whose strike has a key.
C4_Witness ==
    /\ mode = "direct" /\ pc = "stats"
    /\ \E i \in 1..Len(options) :
          /\ ~options[i].greeks.some
          /\ StrikeToString(options[i].strike) \notin DOMAIN map
    /\ \E i \in 1..Len(options) :
          /\ options[i].greeks.some
          /\ (options[i].open_interest = 0 \/ options[i].greeks.gamma > 100)
          /\ StrikeToString(options[i].strike) \in DOMAIN map
          /\ map[StrikeToString(options[i].strike)] = 0

----------------------------------------------------------------------------
\* The chain with the option type of contract i changed (call <-> put).
Flip(opts, i) ==
    [opts EXCEPT ![i].option_type = IF @ = "put" THEN "call" ELSE "put"]

\* The chain without contract i.
Without(opts, i) == SubSeq(opts, 1, i - 1) \o SubSeq(opts, i + 1, Len(opts))

\* The map the current aggregator builds from a chain (same date and grid).
BuiltMap(opts) ==
    IF mode = "direct" THEN gamma_exposure_by_price(opts)
    ELSE AggregateLoop(EmptyMap, opts, now, strikes).map

\* C5: in both aggregators, changing only the option type of a contract
\* negates that contract's contribution to every map entry (the map built
\* with the contract minus the map built without it); the other contracts'
\* contributions are unchanged.
C5_FlipNegatesContribution ==
    ChainAggregated =>
        \A i \in 1..Len(options) :
            LET flipped == BuiltMap(Flip(options, i))
                rest    == BuiltMap(Without(options, i))
            IN  /\ DOMAIN flipped = DOMAIN map
                /\ \A k \in DOMAIN map :
                      Get(flipped, k) - Get(rest, k) = -(map[k] - Get(rest, k))

\* An aggregate map of two contracts, one of them a call that contributes a
\* non-zero exposure.
C5_Witness ==
    /\ ChainAggregated /\ mode = "aggregate" /\ Len(options) = 2
    /\ \E i \in 1..2 :
          /\ options[i].option_type = "call"
          /\ \E k \in DOMAIN map :
                map[k] - Get(BuiltMap(Without(options, i)), k) # 0

----------------------------------------------------------------------------
\* The sum, over the contracts with greeks whose strike is k, of s * e.
RECURSIVE StrikeSum(_, _)
StrikeSum(opts, k) ==
    IF opts = <<>> THEN 0
    ELSE LET c == Head(opts)
             e == IF Abs(c.greeks.gamma) > 100 THEN 0
                  ELSE c.greeks.gamma * c.open_interest
             s == IF c.option_type = "put" THEN -1 ELSE 1
         IN  (IF c.greeks.some /\ c.strike = k THEN s * e ELSE 0)
                 + StrikeSum(Tail(opts), k)

\* Every reordering of a chain.
Reorderings(opts) ==
    {[i \in 1..Len(opts) |-> opts[p[i]]] : p \in Permutations(1..Len(opts))}

\* C6: the value the direct aggregator stores at strike k is the sum over
\* the contracts with greeks at strike k of s * e; the map is the same for
\* every permutation of the chain; calls at 95 and 105 with open interest
\* 10 and 20 and gamma 0.05 give {95: 0.5, 105: 1.0}.
C6_DirectValueIsStrikeSum ==
    mode = "direct" =>
        /\ \A k \in DOMAIN map : map[k] = StrikeSum(Processed, ParseF64(k).val)
        /\ pc = "stats" =>
              /\ \A r \in Reorderings(options) : gamma_exposure_by_price(r) = map
              /\ options = << Option(95000, Date20210618, "call", 10, Greeks(5, 20)),
                              Option(105000, Date20210618, "call", 20, Greeks(5, 20)) >>
                    => map = (<<"9", "5">> :> 50) @@ (<<"1", "0", "5">> :> 100)

\* Two different contracts with greeks and non-zero exposure at one strike.
C6_Witness ==
    /\ mode = "direct" /\ pc = "stats" /\ Len(options) = 2
    /\ options[1] # options[2]
    /\ options[1].strike = options[2].strike
    /\ \A i \in 1..2 : options[i].greeks.some /\ DirectExposure(options[i]) # 0
    /\ map[StrikeToString(options[1].strike)] # 0

----------------------------------------------------------------------------
Exposures == {map[k] : k \in DOMAIN map}

\* C7: on every map for which a report is returned the extremes are
\* zero-seeded: maximum = max(0, largest exposure), minimum = min(0,
\* smallest exposure), absolute_maximum = largest |exposure|; a map with
\* only non-negative exposures reports minimum 0 and average negative
\* exposure 0, a map with only negative exposures reports maximum 0 and
\* average positive exposure 0; {100: 5.0} gives average positive exposure
\* 5, maximum 5, minimum 0, absolute maximum 5 and weighted average
\* positive price 100.
C7_ZeroSeededExtremes ==
    result.kind = "ok" =>
        /\ Report.maximum = SetMax(Exposures \cup {0})
        /\ Report.minimum = SetMin(Exposures \cup {0})
        /\ Report.absolute_maximum = SetMax({Abs(e) : e \in Exposures} \cup {0})
        /\ (\A e \in Exposures : e >= 0) =>
              /\ Report.minimum = 0
              /\ Report.average_negative_exposure = [kind |-> "num", n |-> 0, d |-> 1]
        /\ (\A e \in Exposures : e < 0) =>
              /\ Report.maximum = 0
              /\ Report.average_positive_exposure = [kind |-> "num", n |-> 0, d |-> 1]
        /\ map = (<<"1", "0", "0">> :> 500) =>
              /\ Report.average_positive_exposure = [kind |-> "num", n |-> 500, d |-> 1]
              /\ Report.maximum = 500
              /\ Report.minimum = 0
              /\ Report.absolute_maximum = 500
              /\ Report.weighted_average_positive_price
                    = [kind |-> "num", n |-> 100000, d |-> 1]

\* The report of the map {100: 5.0}.
C7_Witness ==
    /\ result.kind = "ok"
    /\ map = (<<"1", "0", "0">> :> 500)

----------------------------------------------------------------------------
\* The input holds a map key that is not a number, or (aggregate builder) a
\* contract whose expiration date is not a calendar date.
MalformedInput ==
    \/ \E k \in DOMAIN map : ~ParseF64(k).ok
    \/ /\ mode = "aggregate"
       /\ \E i \in 1..Len(options) : options[i].expiration_date \in MalformedDates

\* C8: malformed input is an error value, never a partial report or a
\* crash: the operation returns an error, no report is produced, and the
\* caller of the query gets an error result.
C8_MalformedInputIsErrorValue ==
    MalformedInput =>
        /\ result.kind \notin {"ok", "panic"}
        /\ query \notin {"data", "panic"}
        /\ (pc = "done" /\ mode = "stats") => result.kind = "err"
        /\ (pc = "done" /\ mode = "aggregate") => query = "error"

----------------------------------------------------------------------------
\* C9: for every non-empty map, average_absolute_exposure is the sum of
\* |exposure| over all entries divided by the number of entries, also when
\* the positive or the negative subset is empty.
C9_AverageAbsoluteOverAllEntries ==
    (result.kind = "ok" /\ DOMAIN map # {}) =>
        Report.average_absolute_exposure
            = Frac(SumOfAbs(map, DOMAIN map), Cardinality(DOMAIN map))

----------------------------------------------------------------------------
\* prices holds every entry of the map exactly once.
IsRearrangement(prices, m) ==
    /\ Len(prices) = Cardinality(DOMAIN m)
    /\ \A k \in DOMAIN m :
          \E i \in 1..Len(prices) :
              /\ prices[i] = [strike |-> k, gamma_exposure |-> m[k]]
              /\ \A j \in 1..Len(prices) : prices[j].strike = k => j = i

\* C10: whenever GammaExposureStats::new returns a report, its prices are a
\* rearrangement of the map's entries (as many elements as keys, each key
\* once, with the exposure the map holds for it, zero and negative ones
\* included), and the map itself is unchanged.
C10_PricesRearrangeMap ==
    [][pc = "stats" =>
          /\ map' = map
          /\ result'.kind = "ok" => IsRearrangement(result'.stats.prices, map)
      ]_vars

\* A report of a map with a zero and a negative exposure.
C10_Witness ==
    /\ result.kind = "ok"
    /\ Cardinality(DOMAIN map) = 2
    /\ \E k \in DOMAIN map : map[k] = 0
    /\ \E k \in DOMAIN map : map[k] < 0
    /\ IsRearrangement(Report.prices, map)

====
